---- MODULE Spec2Model ----
(***************************************************************************)
(* Kinship network of relationships.py: graph construction                 *)
(* (generate_connections), the bidirectional pairwise search               *)
(* (find_relationship), the relationship namer (relationship_name,         *)
(* invert_chain) and the all-pairs engine (find_all_relationships).        *)
(*                                                                         *)
(* Two specifications share the variables:                                 *)
(*   SpecBuild  generate_connections, one person ingested per step, from   *)
(*              arbitrary identity and marriage records;                   *)
(*   Spec       the queries on a finished graph: find_all_relationships    *)
(*              (one intermediate node per step) followed by one           *)
(*              find_relationship call (one while-iteration per step).     *)
(***************************************************************************)
EXTENDS Integers, Sequences, FiniteSets, TLC

\* ------------------------------------------------------------------ bounds
\* Persons of the population queried by the search and all-pairs engine.
NumPersons == 4
\* Persons of the population on which the termination of the search is
\* checked.
NumSmallPersons == 3
\* Persons occurring in the records fed to the step-by-step graph builder.
NumRecordPersons == 2
\* Rows of the marriage file.
MaxMarriageRows == 1
\* Largest hop-count ceiling (max_links) a caller passes.
MaxCeiling == 3
\* Persons occurring in the chains handed to the namer and the inverter.
NumChainPersons == 2
\* Links after the first of a chain of arbitrary kinds and persons.
MaxFreeLinks == 3
\* Links after the first of a chain of 'parent' and 'child' steps.
MaxLinealLinks == 8
\* Lines (individuals) of the household file.
MaxLines == 2
\* Households of the community, besides '0' (not in the community).
NumHouseholds == 3

IDs == 1..NumPersons
RecordIDs == 1..NumRecordPersons

\* Python's None where an ID is expected (a missing father or mother ID).
NoneId == 0
\* Python's None where a relationship name is expected.
NoneValue == <<"None">>
\* Python's None where a chain is expected; no chain the search builds is
\* empty, and "if known_chain" treats None and [] alike.
NoChain == <<>>
\* The ValueError find_relationship raises for an ID that is not in the data.
ValueError == <<"ValueError">>
\* max_links=None: no ceiling.
NoCeiling == <<>>
\* No earlier run of the all-pairs engine.
NoRun == <<>>

VARIABLES
  \* generate_connections
  ibp_data,             \* G.get_ibp_data_from_file: id -> [father_id, mother_id]
  indivs_to_marriages,  \* G.get_marriage_data_from_file: id -> set of id pairs
  pending,              \* ids the for-loop of generate_connections has not reached
  conns,                \* the kinship network: id -> (id -> relation kind)
  bpc,                  \* "loop", "returned" or "IndexError"
  \* find_all_relationships
  pair_paths, short_path_tree, fw_k, fpc,
  prev_run,             \* what the previous run on this graph returned
  \* find_relationship
  id1, id2, max_links, known1, known2, to_explore, ids_seen, known_chain,
  result, spc,
  dequeued,             \* the persons taken off to_explore so far, in order
  \* path
  path_id1, path_id2, link, mypath, ppc,
  \* relationship_name and invert_chain
  the_chain,            \* the chain passed to relationship_name or invert_chain
  the_computed,         \* relationship_name's "computed" as its loop runs
  repl_n, npc, inverted, ipc,
  \* B.getMiggration.py
  hhList, idvHHDict, totalHHDict, lines_left

buildVars == <<ibp_data, indivs_to_marriages, pending, bpc>>
fwVars == <<pair_paths, short_path_tree, fw_k, fpc, prev_run>>
searchVars == <<id1, id2, max_links, known1, known2, to_explore, ids_seen,
                known_chain, result, spc, dequeued>>
pathVars == <<path_id1, path_id2, link, mypath, ppc>>
nameVars == <<the_chain, the_computed, repl_n, npc, inverted, ipc>>
migrationVars == <<hhList, idvHHDict, totalHHDict, lines_left>>
otherVars == <<pathVars, nameVars, migrationVars>>
vars == <<buildVars, conns, fwVars, searchVars, otherVars>>

\* ------------------------------------------------------- Python dictionaries
EmptyDict == <<>>

SetItem(d, k, v) == [x \in (DOMAIN d) \cup {k} |-> IF x = k THEN v ELSE d[x]]

SetDefault(d, k, v) == IF k \in DOMAIN d THEN d ELSE SetItem(d, k, v)

\* The orders in which the items of a dictionary with keys S can come.
Orders(S) ==
  {o \in [1..Cardinality(S) -> S] : \A i, j \in 1..Cardinality(S) : o[i] = o[j] => i = j}

\* ------------------------------------------------------ genealogy.py parsing
\* One row of the marriage file adds its id pair, lower ID first, to the list
\* of both the husband and the wife.
IdPair(hid, wid) == IF hid < wid THEN <<hid, wid>> ELSE <<wid, hid>>

AddMarriageRow(i2m, row) ==
  LET hid == row[1]
      wid == row[2]
      p == IdPair(hid, wid)
      m1 == SetItem(i2m, hid, (IF hid \in DOMAIN i2m THEN i2m[hid] ELSE {}) \cup {p})
  IN SetItem(m1, wid, (IF wid \in DOMAIN m1 THEN m1[wid] ELSE {}) \cup {p})

RECURSIVE IndivsToMarriages(_)
IndivsToMarriages(rows) ==
  IF rows = {} THEN EmptyDict
  ELSE LET r == CHOOSE x \in rows : TRUE
       IN AddMarriageRow(IndivsToMarriages(rows \ {r}), r)

\* --------------------------------------------------- generate_connections
\* conns[a][b] = kind_ab; conns.setdefault(b, {}); conns[b][a] = kind_ba
MutantLinkOneWay(c, a, b, kind_ab, kind_ba) ==
  LET c1 == SetItem(c, a, SetItem(c[a], b, kind_ab))
  IN SetDefault(c1, b, EmptyDict)

Link(c, a, b, kind_ab, kind_ba) ==
  LET c1 == SetItem(c, a, SetItem(c[a], b, kind_ab))
      c2 == SetDefault(c1, b, EmptyDict)
  IN SetItem(c2, b, SetItem(c2[b], a, kind_ba))

\* The id pairs of _id's marriages.
MarriagesOf(i2m, _id) == IF _id \in DOMAIN i2m THEN i2m[_id] ELSE {}

\* [i for i in id_pair if i != _id][0] has no element 0 for the pair (_id, _id).
SpouseIndexError(i2m, _id) == <<_id, _id>> \in MarriagesOf(i2m, _id)

SpouseIds(i2m, _id) ==
  {IF p[1] # _id THEN p[1] ELSE p[2] : p \in MarriagesOf(i2m, _id)}

FatherId(ibp, _id) == IF _id \in DOMAIN ibp THEN ibp[_id].father_id ELSE NoneId

MotherId(ibp, _id) == IF _id \in DOMAIN ibp THEN ibp[_id].mother_id ELSE NoneId

RECURSIVE LinkSpouses(_, _, _)
LinkSpouses(c, _id, spouse_ids) ==
  IF spouse_ids = {} THEN c
  ELSE LET s_id == CHOOSE s \in spouse_ids : TRUE
       IN LinkSpouses(Link(c, _id, s_id, "spouse", "spouse"), _id,
                      spouse_ids \ {s_id})

\* One iteration of the for-loop, for a person whose spouse list can be built.
IngestPerson(c, ibp, i2m, _id) ==
  LET c0 == SetDefault(c, _id, EmptyDict)
      f_id == FatherId(ibp, _id)
      m_id == MotherId(ibp, _id)
      c1 == IF f_id # NoneId THEN Link(c0, _id, f_id, "parent", "child") ELSE c0
      c2 == IF m_id # NoneId THEN Link(c1, _id, m_id, "parent", "child") ELSE c1
  IN LinkSpouses(c2, _id, SpouseIds(i2m, _id))

\* The ids the for-loop visits.
LoopIds(ibp, i2m) == (DOMAIN ibp) \cup (DOMAIN i2m)

\* The whole loop, visiting the ids in increasing order.
RECURSIVE IngestAll(_, _, _, _)
IngestAll(c, ibp, i2m, ids) ==
  IF ids = {} THEN c
  ELSE LET _id == CHOOSE i \in ids : \A j \in ids : i <= j
       IN IngestAll(IngestPerson(c, ibp, i2m, _id), ibp, i2m, ids \ {_id})

GenerateConnections(ibp, i2m) == IngestAll(EmptyDict, ibp, i2m, LoopIds(ibp, i2m))

\* ------------------------------------------------------------ record inputs
IbpRecord(ids) == [father_id : ids \cup {NoneId}, mother_id : ids \cup {NoneId}]

\* Identity files over the record persons: any subset has a row.
IbpInputs == UNION {[S -> IbpRecord(RecordIDs)] : S \in SUBSET RecordIDs}

MarriageRows(ids) == ids \X ids

MarriageInputs ==
  {R \in SUBSET MarriageRows(RecordIDs) : Cardinality(R) <= MaxMarriageRows}

\* ------------------------------------------------------------- idle values
IdleFW ==
  /\ pair_paths = EmptyDict /\ short_path_tree = EmptyDict
  /\ fw_k = 0 /\ fpc = "n/a" /\ prev_run = NoRun

IdlePath ==
  /\ path_id1 = NoneId /\ path_id2 = NoneId /\ link = NoneId
  /\ mypath = <<>> /\ ppc = "n/a"

IdleName ==
  /\ the_chain = NoChain /\ the_computed = <<>> /\ repl_n = 0 /\ npc = "n/a"
  /\ inverted = NoChain /\ ipc = "n/a"

IdleMigration ==
  /\ hhList = <<>> /\ idvHHDict = {} /\ totalHHDict = EmptyDict
  /\ lines_left = 0

IdleOther == IdlePath /\ IdleName /\ IdleMigration

IdleBuild ==
  /\ ibp_data = EmptyDict /\ indivs_to_marriages = EmptyDict
  /\ pending = {} /\ conns = EmptyDict /\ bpc = "n/a"

IdleSearch ==
  /\ id1 = NoneId /\ id2 = NoneId /\ max_links = NoCeiling
  /\ known1 = EmptyDict /\ known2 = EmptyDict
  /\ to_explore = <<>> /\ ids_seen = {} /\ known_chain = NoChain
  /\ result = NoneValue /\ spc = "n/a" /\ dequeued = <<>>

\* ------------------------------------------- SpecBuild: generate_connections
InitBuild ==
  /\ ibp_data \in IbpInputs
  /\ \E rows \in MarriageInputs : indivs_to_marriages = IndivsToMarriages(rows)
  /\ pending = LoopIds(ibp_data, indivs_to_marriages)
  /\ conns = EmptyDict
  /\ bpc = "loop"
  /\ IdleFW /\ IdleSearch /\ IdleOther

\* One iteration of "for _id in set(...)": a set is visited in no stated order.
Ingest ==
  /\ bpc = "loop"
  /\ \E _id \in pending :
       /\ ~SpouseIndexError(indivs_to_marriages, _id)
       /\ conns' = IngestPerson(conns, ibp_data, indivs_to_marriages, _id)
       /\ pending' = pending \ {_id}
  /\ UNCHANGED <<ibp_data, indivs_to_marriages, bpc, fwVars, searchVars, otherVars>>

\* The iteration of a person married to themself: conns.setdefault(_id, {})
\* has run when the spouse list raises IndexError, which nothing catches.
IngestRaises ==
  /\ bpc = "loop"
  /\ \E _id \in pending :
       /\ SpouseIndexError(indivs_to_marriages, _id)
       /\ conns' = SetDefault(conns, _id, EmptyDict)
       /\ pending' = pending \ {_id}
  /\ bpc' = "IndexError"
  /\ UNCHANGED <<ibp_data, indivs_to_marriages, fwVars, searchVars, otherVars>>

ReturnConns ==
  /\ bpc = "loop" /\ pending = {}
  /\ bpc' = "returned"
  /\ UNCHANGED <<ibp_data, indivs_to_marriages, pending, conns, fwVars, searchVars, otherVars>>

NextBuild == Ingest \/ IngestRaises \/ ReturnConns

SpecBuild == InitBuild /\ [][NextBuild]_vars

\* -------------------------------------------------------- relationship_name
\* A name is the sequence of the pieces of its text: the relation kinds, the
\* joiner "'s " and the words of the replacements, cut where a pattern could
\* match ("grandparent" is "grand" followed by "parent").
Joiner == "'s "

\* "'s ".join(relationships)
RECURSIVE JoinKinds(_)
JoinKinds(kinds) ==
  IF kinds = <<>> THEN <<>>
  ELSE IF Len(kinds) = 1 THEN <<kinds[1]>>
  ELSE <<kinds[1], Joiner>> \o JoinKinds(Tail(kinds))

\* n copies of kind, joined.
RECURSIVE Repeat(_, _)
Repeat(kind, n) ==
  IF n = 1 THEN <<kind>> ELSE <<kind, Joiner>> \o Repeat(kind, n - 1)

Cousin(n) == Repeat("parent", n) \o <<Joiner>> \o Repeat("child", n)

\* The replacements list, in its order.
MutantReplacementsShortestFirst ==
  << <<Repeat("child", 2), <<"grand", "child">> >>,
     <<Repeat("child", 3), <<"great-", "grand", "child">> >>,
     <<Repeat("child", 4), <<"great-", "great-", "grand", "child">> >>,
     <<Repeat("parent", 2), <<"grand", "parent">> >>,
     <<Repeat("parent", 3), <<"great-", "grand", "parent">> >>,
     <<Repeat("parent", 4), <<"great-", "great-", "grand", "parent">> >>,
     <<Cousin(1), <<"sibling">> >>,
     <<Cousin(2), <<"first cousin">> >>,
     <<Cousin(3), <<"second cousin">> >>,
     <<Cousin(4), <<"third cousin">> >> >>

Replacements ==
  << <<Cousin(4), <<"third cousin">> >>,
     <<Cousin(3), <<"second cousin">> >>,
     <<Cousin(2), <<"first cousin">> >>,
     <<Cousin(1), <<"sibling">> >>,
     <<Repeat("parent", 4), <<"great-", "great-", "grand", "parent">> >>,
     <<Repeat("parent", 3), <<"great-", "grand", "parent">> >>,
     <<Repeat("parent", 2), <<"grand", "parent">> >>,
     <<Repeat("child", 4), <<"great-", "great-", "grand", "child">> >>,
     <<Repeat("child", 3), <<"great-", "grand", "child">> >>,
     <<Repeat("child", 2), <<"grand", "child">> >> >>

MatchesAt(pattern, text, i) ==
  /\ i + Len(pattern) - 1 <= Len(text)
  /\ \A j \in 1..Len(pattern) : text[i + j - 1] = pattern[j]

\* re.sub(pattern, repl, text): the leftmost non-overlapping matches, from i on.
RECURSIVE ReSubFrom(_, _, _, _)
ReSubFrom(pattern, repl, text, i) ==
  IF i > Len(text) THEN <<>>
  ELSE IF MatchesAt(pattern, text, i)
       THEN repl \o ReSubFrom(pattern, repl, text, i + Len(pattern))
       ELSE <<text[i]>> \o ReSubFrom(pattern, repl, text, i + 1)

ReSub(pattern, repl, text) == ReSubFrom(pattern, repl, text, 1)

RECURSIVE ApplyReplacements(_, _)
ApplyReplacements(computed, n) ==
  IF n > Len(Replacements) THEN computed
  ELSE ApplyReplacements(
         ReSub(Replacements[n][1], Replacements[n][2], computed), n + 1)

\* A chain is a sequence of links <<kind, id>>.
MutantRelationshipsKeepsSelf(chain1) == [n \in 1..Len(chain1) |-> chain1[n][1]]

Relationships(chain1) ==
  LET keep == {i \in 1..Len(chain1) : chain1[i][1] # "self"}
      Nth(n) == CHOOSE i \in keep : Cardinality({j \in keep : j < i}) = n - 1
  IN [n \in 1..Cardinality(keep) |-> chain1[Nth(n)][1]]

\* relationship_name(chain1, style='new')
RelationshipName(chain1) == ApplyReplacements(JoinKinds(Relationships(chain1)), 1)

\* relationship_name(chain1, style='numeric')
NumLinks(chain1) == Len(Relationships(chain1))

\* -------------------------------------------------------------- invert_chain
MutantInverseKeepsChild(kind) ==
  CASE kind = "parent" -> "child"
    [] kind = "child" -> "child"
    [] kind = "spouse" -> "spouse"
    [] kind = "self" -> "self"

Inverse(kind) ==
  CASE kind = "parent" -> "child"
    [] kind = "child" -> "parent"
    [] kind = "spouse" -> "spouse"
    [] kind = "self" -> "self"

\* The j-th link appended is the j-th from the end, under the inverse of the
\* kind of the link appended before it ('self' for the first).
MutantInvertChainKeepsKinds(chain) ==
  LET n == Len(chain)
  IN [j \in 1..n |->
        <<(IF j = 1 THEN "self" ELSE chain[n + 2 - j][1]), chain[n + 1 - j][2]>>]

MutantInvertChainSameIds(chain) ==
  LET n == Len(chain)
  IN [j \in 1..n |-> <<Inverse(chain[n + 1 - j][1]), chain[n + 1 - j][2]>>]

InvertChain(chain) ==
  LET n == Len(chain)
  IN [j \in 1..n |->
        <<Inverse(IF j = 1 THEN "self" ELSE chain[n + 2 - j][1]),
          chain[n + 1 - j][2]>>]

\* --------------------------------------------------- find_all_relationships
\* NO_CONN = 9e9 in the source, above any sum of two distances; the value here
\* keeps NO_CONN + NO_CONN inside the checker's integers and has the same
\* order relations with every distance of a finite population.
NO_CONN == 900000000

\* sorted(conns.keys())
RECURSIVE SortedSeq(_)
SortedSeq(S) ==
  IF S = {} THEN <<>>
  ELSE LET lo == CHOOSE i \in S : \A j \in S : i <= j
       IN <<lo>> \o SortedSeq(S \ {lo})

IdList(c) == SortedSeq(DOMAIN c)

\* d[a].get(b, NO_CONN)
GetDist(pp, a, b) == IF b \in DOMAIN pp[a] THEN pp[a][b] ELSE NO_CONN

\* d[a][b] = v
SetEntry(d, a, b, v) == SetItem(d, a, SetItem(d[a], b, v))

\* Lines 335-340: distance 1 and next hop j for every direct edge.
InitTables(c) ==
  [pp |-> [i \in DOMAIN c |-> [j \in DOMAIN c[i] |-> 1]],
   tree |-> [i \in DOMAIN c |-> [j \in DOMAIN c[i] |-> j]]]

\* "for j in conns[i].keys()", lines 338-340, with the keys coming in the
\* given order: the rows of person i in the two tables.
MutantInitRowResetInLoop(row, order) ==
  IF order = <<>> THEN row
  ELSE [pp |-> SetItem(EmptyDict, order[Len(order)], 1),
        tree |-> SetItem(EmptyDict, order[Len(order)], order[Len(order)])]

RECURSIVE InitRow(_, _)
InitRow(row, order) ==
  IF order = <<>> THEN row
  ELSE InitRow([pp |-> SetItem(row.pp, Head(order), 1),
                tree |-> SetItem(row.tree, Head(order), Head(order))],
               Tail(order))

\* The rows person i can get, over the orders of conns[i].keys().
InitRows(c, i) ==
  {InitRow([pp |-> EmptyDict, tree |-> EmptyDict], order) :
     order \in Orders(DOMAIN c[i])}

\* Lines 332-340: the tables the initialisation can leave.
InitTablesIn(c) ==
  LET rows == UNION {InitRows(c, i) : i \in DOMAIN c}
      choices == {r \in [DOMAIN c -> rows] : \A i \in DOMAIN c : r[i] \in InitRows(c, i)}
  IN {[pp |-> [i \in DOMAIN c |-> r[i].pp],
       tree |-> [i \in DOMAIN c |-> r[i].tree]] : r \in choices}

\* The body of the innermost loop, lines 345-352.
MutantRelaxPairForwardOnly(t, new_intermediate, person1, person2) ==
  IF /\ person1 < person2
     /\ GetDist(t.pp, person1, new_intermediate)
          + GetDist(t.pp, new_intermediate, person2)
        < GetDist(t.pp, person1, person2)
  THEN [pp |-> SetEntry(t.pp, person1, person2,
                        t.pp[person1][new_intermediate]
                          + t.pp[new_intermediate][person2]),
        tree |-> SetEntry(t.tree, person1, person2,
                          t.tree[person1][new_intermediate])]
  ELSE t

MutantRelaxPairRecordsIntermediate(t, new_intermediate, person1, person2) ==
  IF GetDist(t.pp, person1, new_intermediate)
       + GetDist(t.pp, new_intermediate, person2)
     < GetDist(t.pp, person1, person2)
  THEN [pp |-> SetEntry(t.pp, person1, person2,
                        t.pp[person1][new_intermediate]
                          + t.pp[new_intermediate][person2]),
        tree |-> SetEntry(t.tree, person1, person2, new_intermediate)]
  ELSE t

RelaxPair(t, new_intermediate, person1, person2) ==
  IF GetDist(t.pp, person1, new_intermediate)
       + GetDist(t.pp, new_intermediate, person2)
     < GetDist(t.pp, person1, person2)
  THEN [pp |-> SetEntry(t.pp, person1, person2,
                        t.pp[person1][new_intermediate]
                          + t.pp[new_intermediate][person2]),
        tree |-> SetEntry(t.tree, person1, person2,
                          t.tree[person1][new_intermediate])]
  ELSE t

\* The two inner loops for one intermediate, from the i-th person1 and the
\* j-th person2 on; the tables are updated in place as the loops run.
RECURSIVE RelaxFrom(_, _, _, _, _)
RelaxFrom(t, new_intermediate, id_list, i, j) ==
  IF i > Len(id_list) THEN t
  ELSE IF j > Len(id_list) THEN RelaxFrom(t, new_intermediate, id_list, i + 1, 1)
  ELSE RelaxFrom(RelaxPair(t, new_intermediate, id_list[i], id_list[j]),
                 new_intermediate, id_list, i, j + 1)

RelaxRound(t, new_intermediate, id_list) ==
  RelaxFrom(t, new_intermediate, id_list, 1, 1)

\* The whole relaxation, from the k-th intermediate on.
RECURSIVE RelaxAll(_, _, _)
RelaxAll(t, id_list, k) ==
  IF k > Len(id_list) THEN t
  ELSE RelaxAll(RelaxRound(t, id_list[k], id_list), id_list, k + 1)

FloydWarshall(c) == RelaxAll(InitTables(c), IdList(c), 1)

\* Lines 357-370: some pair id1 < id2 makes the output loop raise ValueError.
SymmetryError(pp, id_list) ==
  \E i, j \in 1..Len(id_list) :
    /\ i < j
    /\ LET a == id_list[i]
           b == id_list[j]
       IN \/ a \in DOMAIN pp[b] /\ b \notin DOMAIN pp[a]
          \/ b \in DOMAIN pp[a] /\ a \notin DOMAIN pp[b]
          \/ b \in DOMAIN pp[a] /\ a \in DOMAIN pp[b] /\ pp[a][b] # pp[b][a]

\* -------------------------------------------------------- find_relationship
\* The body of "for conn_id, conn_name in new_rel_link_dict.items()", lines
\* 202-215, on s = [known1, known2, known_chain, to_explore, ids_seen].
MutantVisitConnSeenBeforeCheck(s, side1, new_rel, conn_id, conn_name) ==
  LET my_rels == IF side1 THEN s.known1 ELSE s.known2
      new_path == my_rels[new_rel] \o << <<conn_name, conn_id>> >>
      my_rels2 == IF \/ conn_id \notin DOMAIN my_rels
                     \/ Len(new_path) < Len(my_rels[conn_id])
                  THEN SetItem(my_rels, conn_id, new_path)
                  ELSE my_rels
      k1 == IF side1 THEN my_rels2 ELSE s.known1
      k2 == IF side1 THEN s.known2 ELSE my_rels2
      target_rels == IF side1 THEN k2 ELSE k1
      better == /\ conn_id \in DOMAIN target_rels
                /\ \/ s.known_chain = NoChain
                   \/ Len(s.known_chain) > Len(k1[conn_id]) + Len(k2[conn_id])
      seen == s.ids_seen \cup {conn_id}
  IN [known1 |-> k1,
      known2 |-> k2,
      known_chain |-> IF better THEN k1[conn_id] \o InvertChain(k2[conn_id])
                      ELSE s.known_chain,
      to_explore |-> IF conn_id \notin seen
                     THEN Append(s.to_explore, conn_id)
                     ELSE s.to_explore,
      ids_seen |-> seen]

MutantVisitConnJoinsBackward(s, side1, new_rel, conn_id, conn_name) ==
  LET my_rels == IF side1 THEN s.known1 ELSE s.known2
      new_path == my_rels[new_rel] \o << <<conn_name, conn_id>> >>
      my_rels2 == IF \/ conn_id \notin DOMAIN my_rels
                     \/ Len(new_path) < Len(my_rels[conn_id])
                  THEN SetItem(my_rels, conn_id, new_path)
                  ELSE my_rels
      k1 == IF side1 THEN my_rels2 ELSE s.known1
      k2 == IF side1 THEN s.known2 ELSE my_rels2
      target_rels == IF side1 THEN k2 ELSE k1
      better == /\ conn_id \in DOMAIN target_rels
                /\ \/ s.known_chain = NoChain
                   \/ Len(s.known_chain) > Len(k1[conn_id]) + Len(k2[conn_id])
  IN [known1 |-> k1,
      known2 |-> k2,
      known_chain |-> IF better THEN k2[conn_id] \o InvertChain(k1[conn_id])
                      ELSE s.known_chain,
      to_explore |-> IF conn_id \notin s.ids_seen
                     THEN Append(s.to_explore, conn_id)
                     ELSE s.to_explore,
      ids_seen |-> s.ids_seen \cup {conn_id}]

MutantVisitConnReplacesOnTie(s, side1, new_rel, conn_id, conn_name) ==
  LET my_rels == IF side1 THEN s.known1 ELSE s.known2
      new_path == my_rels[new_rel] \o << <<conn_name, conn_id>> >>
      my_rels2 == IF \/ conn_id \notin DOMAIN my_rels
                     \/ Len(new_path) < Len(my_rels[conn_id])
                  THEN SetItem(my_rels, conn_id, new_path)
                  ELSE my_rels
      k1 == IF side1 THEN my_rels2 ELSE s.known1
      k2 == IF side1 THEN s.known2 ELSE my_rels2
      target_rels == IF side1 THEN k2 ELSE k1
      better == /\ conn_id \in DOMAIN target_rels
                /\ \/ s.known_chain = NoChain
                   \/ Len(s.known_chain) >= Len(k1[conn_id]) + Len(k2[conn_id])
  IN [known1 |-> k1,
      known2 |-> k2,
      known_chain |-> IF better THEN k1[conn_id] \o InvertChain(k2[conn_id])
                      ELSE s.known_chain,
      to_explore |-> IF conn_id \notin s.ids_seen
                     THEN Append(s.to_explore, conn_id)
                     ELSE s.to_explore,
      ids_seen |-> s.ids_seen \cup {conn_id}]

MutantVisitConnAlwaysEnqueues(s, side1, new_rel, conn_id, conn_name) ==
  LET my_rels == IF side1 THEN s.known1 ELSE s.known2
      new_path == my_rels[new_rel] \o << <<conn_name, conn_id>> >>
      my_rels2 == IF \/ conn_id \notin DOMAIN my_rels
                     \/ Len(new_path) < Len(my_rels[conn_id])
                  THEN SetItem(my_rels, conn_id, new_path)
                  ELSE my_rels
      k1 == IF side1 THEN my_rels2 ELSE s.known1
      k2 == IF side1 THEN s.known2 ELSE my_rels2
      target_rels == IF side1 THEN k2 ELSE k1
      better == /\ conn_id \in DOMAIN target_rels
                /\ \/ s.known_chain = NoChain
                   \/ Len(s.known_chain) > Len(k1[conn_id]) + Len(k2[conn_id])
  IN [known1 |-> k1,
      known2 |-> k2,
      known_chain |-> IF better THEN k1[conn_id] \o InvertChain(k2[conn_id])
                      ELSE s.known_chain,
      to_explore |-> Append(s.to_explore, conn_id),
      ids_seen |-> s.ids_seen \cup {conn_id}]

VisitConn(s, side1, new_rel, conn_id, conn_name) ==
  LET my_rels == IF side1 THEN s.known1 ELSE s.known2
      new_path == my_rels[new_rel] \o << <<conn_name, conn_id>> >>
      my_rels2 == IF \/ conn_id \notin DOMAIN my_rels
                     \/ Len(new_path) < Len(my_rels[conn_id])
                  THEN SetItem(my_rels, conn_id, new_path)
                  ELSE my_rels
      k1 == IF side1 THEN my_rels2 ELSE s.known1
      k2 == IF side1 THEN s.known2 ELSE my_rels2
      target_rels == IF side1 THEN k2 ELSE k1
      better == /\ conn_id \in DOMAIN target_rels
                /\ \/ s.known_chain = NoChain
                   \/ Len(s.known_chain) > Len(k1[conn_id]) + Len(k2[conn_id])
  IN [known1 |-> k1,
      known2 |-> k2,
      known_chain |-> IF better THEN k1[conn_id] \o InvertChain(k2[conn_id])
                      ELSE s.known_chain,
      to_explore |-> IF conn_id \notin s.ids_seen
                     THEN Append(s.to_explore, conn_id)
                     ELSE s.to_explore,
      ids_seen |-> s.ids_seen \cup {conn_id}]

\* The for-loop over the items of conns[new_rel], taken in the given order.
RECURSIVE VisitAll(_, _, _, _, _)
VisitAll(s, side1, new_rel, links, order) ==
  IF order = <<>> THEN s
  ELSE VisitAll(VisitConn(s, side1, new_rel, Head(order), links[Head(order)]),
                side1, new_rel, links, Tail(order))

\* len(my_rels[new_rel]) > max_links, lines 194-197.
MutantOverCeilingOffByOne(ceiling, chain) ==
  ceiling # NoCeiling /\ Len(chain) >= ceiling[1]

OverCeiling(ceiling, chain) == ceiling # NoCeiling /\ Len(chain) > ceiling[1]

\* sum(len(ch) for ch in known_chain) - 2: every link is a one-entry dict.
ChainLength(chain) == Len(chain) - 2

\* Lines 217-222.
MutantSearchResultNoNoneCheck(chain, ceiling) ==
  IF ceiling = NoCeiling \/ ChainLength(chain) <= ceiling[1]
  THEN RelationshipName(chain)
  ELSE NoneValue

SearchResult(chain, ceiling) ==
  IF chain # NoChain /\ (ceiling = NoCeiling \/ ChainLength(chain) <= ceiling[1])
  THEN RelationshipName(chain)
  ELSE NoneValue

\* ------------------------------------------- Spec: queries on a built graph
\* The records behind the queried graphs: persons 1..k have a row each, in
\* order of birth, so that the IDs a row names as parents are lower than its
\* own.  generate_connections treats the father and the mother ID alike, so a
\* lone parent is given as the father and two parents in increasing order; a
\* marriage row is given with the lower ID as the husband.  Every pedigree
\* without a cycle of parenthood is one of these up to the naming of its
\* persons, and every set of linked pairs among four persons occurs.
QueryRecord(_id) ==
  {r \in IbpRecord(1..(_id - 1)) :
     \/ r.mother_id = NoneId
     \/ r.father_id # NoneId /\ r.father_id < r.mother_id}

QueryIbp(k) == {ibp \in [1..k -> IbpRecord(1..k)] : \A i \in 1..k : ibp[i] \in QueryRecord(i)}

QueryRows(k) ==
  {R \in SUBSET {row \in MarriageRows(1..k) : row[1] < row[2]} :
     Cardinality(R) <= MaxMarriageRows}

Ceilings == {NoCeiling} \cup {<<m>> : m \in 0..MaxCeiling}

\* generate_connections has returned the graph; its records are out of scope.
Init ==
  /\ \E k \in 0..NumPersons :
       \E ibp \in QueryIbp(k), rows \in QueryRows(k) :
         conns = GenerateConnections(ibp, IndivsToMarriages(rows))
  /\ ibp_data = EmptyDict /\ indivs_to_marriages = EmptyDict
  /\ pending = {} /\ bpc = "returned"
  /\ IdleFW /\ IdleSearch /\ IdleOther

\* find_all_relationships, lines 327-340.
FWStart ==
  /\ bpc = "returned" /\ fpc = "n/a"
  /\ \E t \in InitTablesIn(conns) :
       /\ pair_paths' = t.pp
       /\ short_path_tree' = t.tree
  /\ fw_k' = 1
  /\ fpc' = "relax"
  /\ UNCHANGED <<prev_run, buildVars, conns, searchVars, otherVars>>

\* One iteration of "for new_intermediate in id_list", lines 342-352.
FWRelax ==
  /\ fpc = "relax" /\ fw_k <= Len(IdList(conns))
  /\ LET t == RelaxRound([pp |-> pair_paths, tree |-> short_path_tree],
                         IdList(conns)[fw_k], IdList(conns))
     IN /\ pair_paths' = t.pp
        /\ short_path_tree' = t.tree
  /\ fw_k' = fw_k + 1
  /\ UNCHANGED <<fpc, prev_run, buildVars, conns, searchVars, otherVars>>

\* The output loop, lines 355-374: the tables are returned unless it raises.
FWWrite ==
  /\ fpc = "relax" /\ fw_k > Len(IdList(conns))
  /\ fpc' = IF SymmetryError(pair_paths, IdList(conns))
            THEN "ValueError" ELSE "returned"
  /\ UNCHANGED <<pair_paths, short_path_tree, fw_k, prev_run, buildVars, conns,
                 searchVars, otherVars>>

\* Lines 173-176: what the call does before any search.
MutantEntryChecksIdsFirst(a, b, c) ==
  IF a \notin DOMAIN c THEN "raise"
  ELSE IF b \notin DOMAIN c THEN "raise"
  ELSE IF a = b THEN "self"
  ELSE "search"

MutantEntryChecksFirstIdOnly(a, b, c) ==
  IF a = b THEN "self"
  ELSE IF a \notin DOMAIN c THEN "raise"
  ELSE "search"

Entry(a, b, c) ==
  IF a = b THEN "self"
  ELSE IF a \notin DOMAIN c THEN "raise"
  ELSE IF b \notin DOMAIN c THEN "raise"
  ELSE "search"

\* find_relationship(a, b, conns, max_links=m), lines 173-183.
Call ==
  /\ fpc \in {"returned", "ValueError"} /\ spc = "n/a"
  /\ \E a \in IDs, b \in IDs, m \in Ceilings :
       /\ id1' = a /\ id2' = b /\ max_links' = m
       /\ IF Entry(a, b, conns) = "self"
          THEN /\ result' = <<"self">> /\ spc' = "returned"
               /\ UNCHANGED <<known1, known2, to_explore>>
          ELSE IF Entry(a, b, conns) = "raise"
          THEN /\ result' = ValueError /\ spc' = "raised"
               /\ UNCHANGED <<known1, known2, to_explore>>
          ELSE /\ known1' = SetItem(EmptyDict, a, << <<"self", a>> >>)
               /\ known2' = SetItem(EmptyDict, b, << <<"self", b>> >>)
               /\ to_explore' = <<a, b>>
               /\ spc' = "loop"
               /\ UNCHANGED result
  /\ UNCHANGED <<ids_seen, known_chain, dequeued, buildVars, conns, fwVars,
                 otherVars>>

\* One iteration of "while to_explore", lines 185-215; the items of
\* conns[new_rel] come in an order the language does not state.
Explore ==
  /\ spc = "loop" /\ to_explore # <<>>
  /\ LET new_rel == Head(to_explore)
         side1 == new_rel \in DOMAIN known1
         my_rels == IF side1 THEN known1 ELSE known2
     IN IF OverCeiling(max_links, my_rels[new_rel])
        THEN /\ to_explore' = Tail(to_explore)
             /\ UNCHANGED <<known1, known2, known_chain, ids_seen>>
        ELSE \E order \in Orders(DOMAIN conns[new_rel]) :
               LET s == VisitAll([known1 |-> known1, known2 |-> known2,
                                  known_chain |-> known_chain,
                                  to_explore |-> Tail(to_explore),
                                  ids_seen |-> ids_seen],
                                 side1, new_rel, conns[new_rel], order)
               IN /\ known1' = s.known1
                  /\ known2' = s.known2
                  /\ known_chain' = s.known_chain
                  /\ to_explore' = s.to_explore
                  /\ ids_seen' = s.ids_seen
  /\ dequeued' = Append(dequeued, Head(to_explore))
  /\ UNCHANGED <<id1, id2, max_links, result, spc, buildVars, conns, fwVars, otherVars>>

\* Lines 217-222.
Return ==
  /\ spc = "loop" /\ to_explore = <<>>
  /\ result' = SearchResult(known_chain, max_links)
  /\ spc' = "returned"
  /\ UNCHANGED <<id1, id2, max_links, known1, known2, to_explore, ids_seen,
                 known_chain, dequeued, buildVars, conns, fwVars, otherVars>>

Next == FWStart \/ FWRelax \/ FWWrite \/ Call \/ Explore \/ Return

Spec == Init /\ [][Next]_vars

\* The same queries on the graphs of a smaller population.
InitSmall ==
  /\ \E k \in 0..NumSmallPersons :
       \E ibp \in QueryIbp(k), rows \in QueryRows(k) :
         conns = GenerateConnections(ibp, IndivsToMarriages(rows))
  /\ ibp_data = EmptyDict /\ indivs_to_marriages = EmptyDict
  /\ pending = {} /\ bpc = "returned"
  /\ IdleFW /\ IdleSearch /\ IdleOther

\* A call of find_relationship that has begun goes on: nothing but its own
\* loop condition, line 185, stops the while loop.
SpecLive ==
  InitSmall /\ [][Next]_vars /\ WF_vars(Explore)

\* ------------------------- SpecAllPairs: find_all_relationships and path
\* A second call of find_all_relationships on the same graph, lines 327-340;
\* the caller keeps the tables the first run computed.
FWAgain ==
  /\ fpc \in {"returned", "ValueError"} /\ prev_run = NoRun /\ ppc = "n/a"
  /\ prev_run' = <<[pp |-> pair_paths, tree |-> short_path_tree]>>
  /\ \E t \in InitTablesIn(conns) :
       /\ pair_paths' = t.pp
       /\ short_path_tree' = t.tree
  /\ fw_k' = 1
  /\ fpc' = "relax"
  /\ UNCHANGED <<buildVars, conns, searchVars, otherVars>>

\* path(tree, a, b) on the tree the engine returned, lines 394-397;
\* tree[a] raises KeyError when a is not a key of the tree.
PathCall ==
  /\ fpc = "returned" /\ ppc = "n/a"
  /\ \E a \in IDs, b \in IDs :
       /\ path_id1' = a /\ path_id2' = b
       /\ IF a \notin DOMAIN short_path_tree
          THEN /\ ppc' = "KeyError"
               /\ UNCHANGED <<link, mypath>>
          ELSE IF b \notin DOMAIN short_path_tree[a]
          THEN /\ ppc' = "returned"
               /\ mypath' = <<>>
               /\ UNCHANGED link
          ELSE /\ ppc' = "loop"
               /\ mypath' = <<a>>
               /\ link' = a
  /\ UNCHANGED <<buildVars, conns, fwVars, searchVars, nameVars, migrationVars>>

\* One iteration of "while link != id2", lines 398-400.  A path with more
\* links than the population has persons would never end: it is cut there.
MutantPathStepFromStart ==
  /\ ppc = "loop" /\ link # path_id2 /\ Len(mypath) <= NumPersons
  /\ link' = short_path_tree[path_id1][path_id2]
  /\ mypath' = Append(mypath, short_path_tree[path_id1][path_id2])
  /\ UNCHANGED <<ppc, path_id1, path_id2, buildVars, conns, fwVars, searchVars,
                 nameVars, migrationVars>>

PathStep ==
  /\ ppc = "loop" /\ link # path_id2 /\ Len(mypath) <= NumPersons
  /\ IF link \notin DOMAIN short_path_tree
        \/ path_id2 \notin DOMAIN short_path_tree[link]
     THEN /\ ppc' = "KeyError"
          /\ UNCHANGED <<link, mypath>>
     ELSE /\ link' = short_path_tree[link][path_id2]
          /\ mypath' = Append(mypath, short_path_tree[link][path_id2])
          /\ UNCHANGED ppc
  /\ UNCHANGED <<path_id1, path_id2, buildVars, conns, fwVars, searchVars,
                 nameVars, migrationVars>>

\* Line 401.
PathReturn ==
  /\ ppc = "loop" /\ link = path_id2
  /\ ppc' = "returned"
  /\ UNCHANGED <<path_id1, path_id2, link, mypath, buildVars, conns, fwVars,
                 searchVars, nameVars, migrationVars>>

NextAllPairs ==
  FWStart \/ FWRelax \/ FWWrite \/ FWAgain \/ PathCall \/ PathStep \/ PathReturn

SpecAllPairs == Init /\ [][NextAllPairs]_vars

\* A call of path that has begun goes on: nothing but its own loop condition
\* stops the while loop.
SpecAllPairsLive ==
  SpecAllPairs /\ WF_vars(PathStep) /\ WF_vars(PathReturn)

\* --------------------------- SpecName: relationship_name and invert_chain
ChainIDs == 1..NumChainPersons

\* The chains of the form documented at lines 29-33 and 126-128: a 'self'
\* link, then up to n links <<kind, id>> of any kind, 'self' included.
FreeChains(n) ==
  UNION {{<< <<"self", a>> >> \o rest :
            a \in ChainIDs,
            rest \in [1..k -> {"self", "parent", "child", "spouse"} \X ChainIDs]}
         : k \in 0..n}

\* A walk up and down a pedigree: the kinds ks after the 'self' link, the
\* persons taken in turn, and, when m > 0, the second 'self' link that the
\* search leaves after the m-th step where its two chains were merged
\* (line 210), on the person of that step.
LinealChain(ks, m) ==
  LET base == [i \in 1..(Len(ks) + 1) |->
                 IF i = 1 THEN <<"self", 1>>
                 ELSE <<ks[i - 1], (i % NumChainPersons) + 1>>]
  IN IF m = 0 THEN base
     ELSE SubSeq(base, 1, m + 1) \o << <<"self", base[m + 1][2]>> >>
            \o SubSeq(base, m + 2, Len(base))

LinealChains(n) ==
  UNION {{LinealChain(ks, m) : ks \in [1..k -> {"parent", "child"}], m \in 0..k}
         : k \in 0..n}

InputChains == FreeChains(MaxFreeLinks) \cup LinealChains(MaxLinealLinks)

InitName ==
  /\ the_chain \in InputChains
  /\ the_computed = <<>> /\ repl_n = 0 /\ npc = "n/a"
  /\ inverted = NoChain /\ ipc = "n/a"
  /\ IdleBuild /\ IdleFW /\ IdleSearch /\ IdlePath /\ IdleMigration

\* relationship_name(the_chain), lines 38-46.
NameCall ==
  /\ npc = "n/a" /\ ipc = "n/a" /\ the_chain # NoChain
  /\ the_computed' = JoinKinds(Relationships(the_chain))
  /\ repl_n' = 1
  /\ npc' = "loop"
  /\ UNCHANGED <<the_chain, inverted, ipc, buildVars, conns, fwVars, searchVars,
                 pathVars, migrationVars>>

\* One iteration of "for repl in replacements", lines 59-64.
NameSub ==
  /\ npc = "loop" /\ repl_n <= Len(Replacements)
  /\ the_computed' =
       ReSub(Replacements[repl_n][1], Replacements[repl_n][2], the_computed)
  /\ repl_n' = repl_n + 1
  /\ UNCHANGED <<the_chain, npc, inverted, ipc, buildVars, conns, fwVars,
                 searchVars, pathVars, migrationVars>>

\* Line 65.
NameReturn ==
  /\ npc = "loop" /\ repl_n > Len(Replacements)
  /\ npc' = "returned"
  /\ UNCHANGED <<the_chain, the_computed, repl_n, inverted, ipc, buildVars,
                 conns, fwVars, searchVars, pathVars, migrationVars>>

\* invert_chain(the_chain), lines 134-141.
InvertCall ==
  /\ ipc = "n/a" /\ npc = "n/a" /\ the_chain # NoChain
  /\ inverted' = InvertChain(the_chain)
  /\ ipc' = "once"
  /\ UNCHANGED <<the_chain, the_computed, repl_n, npc, buildVars, conns, fwVars,
                 searchVars, pathVars, migrationVars>>

\* invert_chain on what the first call returned.
InvertBack ==
  /\ ipc = "once"
  /\ inverted' = InvertChain(inverted)
  /\ ipc' = "twice"
  /\ UNCHANGED <<the_chain, the_computed, repl_n, npc, buildVars, conns, fwVars,
                 searchVars, pathVars, migrationVars>>

NextName == NameCall \/ NameSub \/ NameReturn \/ InvertCall \/ InvertBack

SpecName == InitName /\ [][NextName]_vars

\* ----------------------------------- SpecMigration: B.getMiggration.py
\* The household columns of a line: item[1..4], one per survey year.
NumSurveys == 4

HouseholdNames == <<"A", "B", "C", "D", "E", "F", "G", "H">>

Households == {"0"} \cup {HouseholdNames[i] : i \in 1..NumHouseholds}

\* Lines 34-40: the keys of idvHHDict for one line of the file.
IdvLinks(hh) ==
  {<<hh[q[1]], hh[q[2]]>> :
     q \in {q \in (1..(NumSurveys - 1)) \X (2..NumSurveys) :
              /\ q[1] < q[2]
              /\ hh[q[1]] # hh[q[2]]
              /\ hh[q[1]] # "0" /\ hh[q[2]] # "0"}}

\* Lines 41-44: every key of idvHHDict adds 1 to its weight.
AddLinks(total, links) ==
  [l \in (DOMAIN total) \cup links |->
     (IF l \in DOMAIN total THEN total[l] ELSE 0) + (IF l \in links THEN 1 ELSE 0)]

InitMigration ==
  /\ hhList = <<>> /\ idvHHDict = {} /\ totalHHDict = EmptyDict
  /\ lines_left \in 1..MaxLines
  /\ IdleBuild /\ IdleFW /\ IdleSearch /\ IdlePath /\ IdleName

\* One iteration of "for eachline in inFile", lines 30-44.
ReadLine ==
  /\ lines_left > 0
  /\ \E hh \in [1..NumSurveys -> Households] :
       /\ hhList' = hh
       /\ idvHHDict' = IdvLinks(hh)
       /\ totalHHDict' = AddLinks(totalHHDict, IdvLinks(hh))
  /\ lines_left' = lines_left - 1
  /\ UNCHANGED <<buildVars, conns, fwVars, searchVars, pathVars, nameVars>>

NextMigration == ReadLine

SpecMigration == InitMigration /\ [][NextMigration]_vars

\* ================================================================= claims
\* -------------------------------------------------- reference definitions
\* The persons within n links of a.
RECURSIVE Within(_, _, _)
Within(c, a, n) ==
  IF n = 0 THEN {a}
  ELSE LET W == Within(c, a, n - 1)
       IN W \cup UNION {DOMAIN c[x] : x \in W}

Connected(c, a, b) == b \in Within(c, a, Cardinality(DOMAIN c))

\* The length of a shortest path between two connected persons.
Distance(c, a, b) ==
  CHOOSE n \in 0..Cardinality(DOMAIN c) :
    /\ b \in Within(c, a, n)
    /\ \A m \in 0..(n - 1) : b \notin Within(c, a, m)

HasKind(c, a, b, kind) ==
  a \in DOMAIN c /\ b \in DOMAIN c[a] /\ c[a][b] = kind

\* The inverse-pair invariant of a kinship graph.
InversePairs(c) ==
  \A a \in DOMAIN c : \A b \in DOMAIN c :
    /\ HasKind(c, a, b, "parent") <=> HasKind(c, b, a, "child")
    /\ HasKind(c, a, b, "spouse") <=> HasKind(c, b, a, "spouse")

\* A call on two distinct persons of the graph has returned.
Searched ==
  /\ spc = "returned" /\ id1 # id2
  /\ id1 \in DOMAIN conns /\ id2 \in DOMAIN conns

\* C1: with no ceiling, the search between two connected distinct persons
\* returns the name of a chain that has as many non-self links as the all-pairs
\* table gives for the pair, whatever the order of the neighbours.
C1_SearchAgreesWithAllPairs ==
  (Searched /\ fpc = "returned" /\ max_links = NoCeiling
     /\ Connected(conns, id1, id2))
  => /\ id2 \in DOMAIN pair_paths[id1]
     /\ known_chain # NoChain
     /\ NumLinks(known_chain) = pair_paths[id1][id2]
     /\ result = RelationshipName(known_chain)

\* Two persons three links apart: the search has to expand a person that is
\* neither id1 nor id2.
C1_Witness ==
  /\ Searched /\ fpc = "returned" /\ max_links = NoCeiling
  /\ Connected(conns, id1, id2)
  /\ pair_paths[id1][id2] = 3
  /\ NumLinks(known_chain) = 3

\* C2: after the relaxation the distance table is symmetric, in its entries
\* and in their values, and the output loop does not raise ValueError.
C2_TableSymmetric ==
  (fpc \in {"returned", "ValueError"} /\ InversePairs(conns))
  => /\ fpc = "returned"
     /\ \A a \in DOMAIN conns : \A b \in DOMAIN conns :
          /\ b \in DOMAIN pair_paths[a] <=> a \in DOMAIN pair_paths[b]
          /\ b \in DOMAIN pair_paths[a] => pair_paths[a][b] = pair_paths[b][a]

\* A finished table with a pair the relaxation had to add, in both directions.
C2_Witness ==
  /\ fpc = "returned" /\ InversePairs(conns)
  /\ \E a \in DOMAIN conns : \E b \in DOMAIN conns :
       /\ a < b /\ b \in DOMAIN pair_paths[a]
       /\ pair_paths[a][b] = 3 /\ pair_paths[b][a] = 3

\* C3: a call with id1 = id2 returns "self", for any ceiling and whether or
\* not the ID is in the graph, and no part of the search state is touched.
C3_SelfWithoutSearch ==
  (spc # "n/a" /\ id1 = id2)
  => /\ spc = "returned" /\ result = <<"self">>
     /\ known1 = EmptyDict /\ known2 = EmptyDict
     /\ to_explore = <<>> /\ ids_seen = {} /\ known_chain = NoChain

C3_Witness ==
  /\ spc = "returned" /\ id1 = id2 /\ id1 \in DOMAIN conns
  /\ max_links = <<0>> /\ result = <<"self">>

\* C4 as stated: a call in which either ID is not a key of the graph raises
\* ValueError.
C4_AbsentIdRaises ==
  (spc # "n/a" /\ (id1 \notin DOMAIN conns \/ id2 \notin DOMAIN conns))
  => spc = "raised" /\ result = ValueError

\* C4 amended: a call on two different IDs, either of which is not a key of
\* the graph, raises ValueError; a call on one absent ID twice returns "self".
C4_AbsentDistinctIdRaises ==
  (spc # "n/a" /\ (id1 \notin DOMAIN conns \/ id2 \notin DOMAIN conns))
  => IF id1 # id2 THEN spc = "raised" /\ result = ValueError
     ELSE spc = "returned" /\ result = <<"self">>

\* The first ID is a person of the graph and the second is not.
C4_Witness ==
  /\ spc = "raised" /\ result = ValueError
  /\ id1 \in DOMAIN conns /\ id2 \notin DOMAIN conns

\* C5: for two persons of the graph that no path connects the search returns
\* None, with or without a ceiling, and no call on two persons of the graph
\* raises.
C5_UnconnectedIsNone ==
  /\ (Searched /\ ~Connected(conns, id1, id2)) => result = NoneValue
  /\ (spc # "n/a" /\ id1 \in DOMAIN conns /\ id2 \in DOMAIN conns)
       => spc \in {"loop", "returned"}

\* An isolated person searched from, under a ceiling.
C5_Witness ==
  /\ Searched /\ ~Connected(conns, id1, id2)
  /\ DOMAIN conns[id1] = {} /\ DOMAIN conns[id2] # {}
  /\ max_links # NoCeiling /\ result = NoneValue

\* C6: under a ceiling m the search returns a name exactly when the two
\* persons are at most m links apart, the chain named then has as many links
\* as their shortest path, and otherwise the result is None.
C6_CeilingExact ==
  (Searched /\ max_links # NoCeiling)
  => IF /\ Connected(conns, id1, id2)
        /\ Distance(conns, id1, id2) <= max_links[1]
     THEN /\ result # NoneValue
          /\ result = RelationshipName(known_chain)
          /\ NumLinks(known_chain) = Distance(conns, id1, id2)
     ELSE result = NoneValue

\* A pair exactly as far apart as the ceiling allows, found.
C6_Witness ==
  /\ Searched /\ max_links = <<3>>
  /\ Connected(conns, id1, id2) /\ Distance(conns, id1, id2) = 3
  /\ result # NoneValue

\* Two persons have a parent in common.
SharedParent(c, a, b) ==
  \E p \in DOMAIN c[a] \cap DOMAIN c[b] : c[a][p] = "parent" /\ c[b][p] = "parent"

\* Two persons are joined through a third who is not a parent of both.
OtherPathOfTwo(c, a, b) ==
  \E x \in DOMAIN c[a] \cap DOMAIN c[b] : ~(c[a][x] = "parent" /\ c[b][x] = "parent")

\* C7: two distinct persons who share a parent, are not directly linked and
\* have no other connecting path of two links are "sibling" to each other,
\* when the ceiling, if any, allows two links.
C7_Siblings ==
  (Searched /\ (max_links = NoCeiling \/ max_links[1] >= 2)
     /\ SharedParent(conns, id1, id2)
     /\ id2 \notin DOMAIN conns[id1]
     /\ ~OtherPathOfTwo(conns, id1, id2))
  => result = <<"sibling">>

\* The father 1 with the children 2 and 3, and nothing else.
C7_Witness ==
  /\ Searched /\ max_links = NoCeiling /\ id1 = 2 /\ id2 = 3
  /\ DOMAIN conns = {1, 2, 3}
  /\ DOMAIN conns[1] = {2, 3}
  /\ DOMAIN conns[2] = {1} /\ conns[2][1] = "parent"
  /\ DOMAIN conns[3] = {1} /\ conns[3][1] = "parent"
  /\ result = <<"sibling">>

\* -------------------------------------------------- generate_connections
\* C8: while generate_connections runs and when it returns, the graph has the
\* inverse-pair invariant.
C8_InversePairsAlways ==
  bpc \in {"loop", "returned"} => InversePairs(conns)

\* The relation kinds the records give to ordered pairs of persons.
Assigned(ibp, i2m) ==
  UNION {
    (IF FatherId(ibp, i) # NoneId
     THEN {<<i, FatherId(ibp, i), "parent">>, <<FatherId(ibp, i), i, "child">>}
     ELSE {})
    \cup
    (IF MotherId(ibp, i) # NoneId
     THEN {<<i, MotherId(ibp, i), "parent">>, <<MotherId(ibp, i), i, "child">>}
     ELSE {})
    \cup
    UNION {{<<p[1], p[2], "spouse">>, <<p[2], p[1], "spouse">>} :
             p \in MarriagesOf(i2m, i)}
    : i \in LoopIds(ibp, i2m)}

\* Some ordered pair is given two different kinds.
Conflict(ibp, i2m) ==
  \E t \in Assigned(ibp, i2m) : \E u \in Assigned(ibp, i2m) :
    t[1] = u[1] /\ t[2] = u[2] /\ t[3] # u[3]

\* C9: generate_connections returns no graph for records that give two
\* different kinds to one ordered pair.
C9_ConflictNeverReturns ==
  bpc = "returned" => ~Conflict(ibp_data, indivs_to_marriages)

\* The IDs that occur in the records.
Mentioned(ibp, i2m) ==
  LoopIds(ibp, i2m)
    \cup {FatherId(ibp, i) : i \in DOMAIN ibp}
    \cup {MotherId(ibp, i) : i \in DOMAIN ibp}

\* The persons a record names as a parent although no identity row and no
\* marriage row is theirs.
ReferencedOnly(ibp, i2m) == (Mentioned(ibp, i2m) \ {NoneId}) \ LoopIds(ibp, i2m)

\* C10: every ID that occurs in the records is a key of the returned graph,
\* and a person who occurs only as somebody's father or mother is that
\* person's 'parent' and has that person as 'child'.
C10_EveryMentionedIdIsKey ==
  bpc = "returned"
  => /\ (Mentioned(ibp_data, indivs_to_marriages) \ {NoneId}) \subseteq DOMAIN conns
     /\ \A b \in ReferencedOnly(ibp_data, indivs_to_marriages) :
          \A a \in DOMAIN ibp_data :
            (FatherId(ibp_data, a) = b \/ MotherId(ibp_data, a) = b)
            => HasKind(conns, b, a, "child") /\ HasKind(conns, a, b, "parent")

\* Person 1 has a row naming 2 as the father, and 2 occurs nowhere else.
C10_Witness ==
  /\ bpc = "returned"
  /\ ReferencedOnly(ibp_data, indivs_to_marriages) = {2}
  /\ DOMAIN conns = {1, 2}
  /\ HasKind(conns, 2, 1, "child")

\* ------------------------------------------------- direction of the name
\* C18: the name returned for (id1, id2) is id2's relation to id1: for two
\* different persons joined by a direct edge it is the kind stored at
\* conns[id1][id2], whenever a name is returned and always when the ceiling,
\* if any, allows one link; so the result is 'parent' exactly when the edge
\* from id2 to id1 is 'child'.
C18_NameIsRelationOfSecondToFirst ==
  (Searched /\ id1 # id2 /\ id2 \in DOMAIN conns[id1])
  => /\ result # NoneValue => result = <<conns[id1][id2]>>
     /\ (max_links = NoCeiling \/ max_links[1] >= 1)
          => /\ result = <<conns[id1][id2]>>
             /\ result = <<"parent">> <=> conns[id2][id1] = "child"

\* A child asked about a parent who has other relatives, under ceiling 1.
C18_Witness ==
  /\ Searched /\ id1 # id2 /\ id2 \in DOMAIN conns[id1]
  /\ conns[id1][id2] = "parent" /\ conns[id2][id1] = "child"
  /\ Cardinality(DOMAIN conns[id2]) >= 2
  /\ max_links = <<1>> /\ result = <<"parent">>

\* ------------------------------------- relationship_name and invert_chain
\* The kinds of the links of a chain that are not 'self', in order.
RECURSIVE NonSelfKinds(_)
NonSelfKinds(chain) ==
  IF chain = <<>> THEN <<>>
  ELSE IF chain[1][1] = "self" THEN NonSelfKinds(Tail(chain))
  ELSE <<chain[1][1]>> \o NonSelfKinds(Tail(chain))

\* np 'parent' steps followed by nc 'child' steps.
LinealKinds(np, nc) ==
  [i \in 1..(np + nc) |-> IF i <= np THEN "parent" ELSE "child"]

\* The names, as the pieces of their text.
CousinName(n) ==
  CASE n = 1 -> <<"sibling">>
    [] n = 2 -> <<"first cousin">>
    [] n = 3 -> <<"second cousin">>
    [] n = 4 -> <<"third cousin">>

LinealName(n, kind) ==
  CASE n = 1 -> <<kind>>
    [] n = 2 -> <<"grand", kind>>
    [] n = 3 -> <<"great-", "grand", kind>>
    [] n = 4 -> <<"great-", "great-", "grand", kind>>

\* C11: a chain whose links other than 'self' are n 'parent' steps followed
\* by n 'child' steps is named sibling, first, second, third cousin for
\* n = 1..4; N 'parent' steps alone are named parent, grandparent,
\* great-grandparent, great-great-grandparent and N 'child' steps alone
\* child, grandchild, great-grandchild, great-great-grandchild for N = 1..4,
\* whatever the persons and the 'self' links of the chain.
C11_NamesOfLinealChains ==
  npc = "returned"
  => \A n \in 1..4 :
       /\ NonSelfKinds(the_chain) = LinealKinds(n, n)
            => the_computed = CousinName(n)
       /\ NonSelfKinds(the_chain) = LinealKinds(n, 0)
            => the_computed = LinealName(n, "parent")
       /\ NonSelfKinds(the_chain) = LinealKinds(0, n)
            => the_computed = LinealName(n, "child")

\* Four steps up and four down, with the second 'self' link of a merged
\* chain, named third cousin.
C11_Witness ==
  /\ npc = "returned"
  /\ NonSelfKinds(the_chain) = LinealKinds(4, 4)
  /\ Len(the_chain) = 10
  /\ the_computed = <<"third cousin">>

\* The possessive concatenation of kinds: the kinds with "'s " between them.
RECURSIVE Possessive(_)
Possessive(kinds) ==
  IF Len(kinds) <= 1 THEN kinds
  ELSE <<kinds[1], "'s ">> \o Possessive(Tail(kinds))

\* A listed pattern occurs somewhere in a text.
Occurs(pattern, text) == \E i \in 1..Len(text) : MatchesAt(pattern, text, i)

NoPatternOccurs(text) ==
  \A n \in 1..Len(Replacements) : ~Occurs(Replacements[n][1], text)

\* C12: for a chain whose possessive concatenation contains none of the ten
\* patterns, relationship_name returns that concatenation of the kinds other
\* than 'self', unchanged.
C12_UnmatchedChainIsRaw ==
  (npc = "returned" /\ NoPatternOccurs(Possessive(NonSelfKinds(the_chain))))
  => the_computed = Possessive(NonSelfKinds(the_chain))

\* child's spouse's parent, on a chain with a 'self' link in the middle.
C12_Witness ==
  /\ npc = "returned"
  /\ NonSelfKinds(the_chain) = <<"child", "spouse">>
  /\ Len(the_chain) = 4
  /\ the_computed = <<"child", "'s ", "spouse">>

\* C13: inverting twice a chain that starts with a 'self' link gives the
\* chain back, link for link, in kinds and in persons, also when the chain
\* has a second 'self' link in the middle.
C13_InvertTwiceIsIdentity ==
  (ipc = "twice" /\ the_chain[1][1] = "self") => inverted = the_chain

\* A merged chain, parent, 'self', child, spouse, inverted twice.
C13_Witness ==
  /\ ipc = "twice" /\ Len(the_chain) = 4
  /\ the_chain[1][1] = "self" /\ the_chain[2][1] = "parent"
  /\ the_chain[3][1] = "self" /\ the_chain[4][1] = "child"
  /\ the_chain[2][2] # the_chain[4][2]
  /\ inverted = the_chain

\* ------------------------------------------- find_all_relationships and path
\* C14: for every pair that has an entry in the returned distance table, the
\* two IDs being equal or not, path returns a sequence with one more element
\* than the distance of the pair.
C14_PathLengthIsDistance ==
  (ppc \in {"returned", "KeyError"}
     /\ path_id1 \in DOMAIN pair_paths
     /\ path_id2 \in DOMAIN pair_paths[path_id1])
  => /\ ppc = "returned"
     /\ Len(mypath) - 1 = pair_paths[path_id1][path_id2]

\* C15: a second run of the all-pairs computation on the same graph ends with
\* the distance table and the shortest-path tree of the first, whatever the
\* orders in which the two runs went through each person's neighbour map.
C15_RerunGivesSameTables ==
  (prev_run # NoRun /\ (fpc = "returned" \/ fw_k > Len(IdList(conns))))
  => /\ pair_paths = prev_run[1].pp
     /\ short_path_tree = prev_run[1].tree

\* A second run returned on a graph in which somebody has two neighbours and
\* some pair is two links apart.
C15_Witness ==
  /\ prev_run # NoRun /\ fpc = "returned"
  /\ \E i \in DOMAIN conns : Cardinality(DOMAIN conns[i]) >= 2
  /\ \E a \in DOMAIN conns : \E b \in DOMAIN pair_paths[a] :
       a # b /\ pair_paths[a][b] = 2
  /\ pair_paths = prev_run[1].pp /\ short_path_tree = prev_run[1].tree

\* C16: the initialisation gives distance 1 to every direct edge and 0 to
\* every person with themself and nothing else, and the returned table has
\* distance 0 from every person to themself.
C16_SelfDistanceZero ==
  /\ (fpc = "relax" /\ fw_k = 1)
       => pair_paths = [i \in DOMAIN conns |->
                          [j \in DOMAIN conns[i] \cup {i} |->
                             IF j = i THEN 0 ELSE 1]]
  /\ fpc = "returned"
       => \A i \in DOMAIN conns :
            i \in DOMAIN pair_paths[i] /\ pair_paths[i][i] = 0

\* C17: when the tree holds no entry for the two IDs (the first is not a key
\* of the tree, or its row has no entry for the second) path returns the
\* empty sequence and raises nothing.
C17_NoEntryGivesEmptyPath ==
  (ppc \in {"returned", "KeyError"}
     /\ (path_id1 \notin DOMAIN short_path_tree
           \/ path_id2 \notin DOMAIN short_path_tree[path_id1]))
  => ppc = "returned" /\ mypath = <<>>

\* ------------------------------------------------ order of the reductions
\* The number of relation tokens of a pattern.
Tokens(pattern) == (Len(pattern) + 1) \div 2

\* Where re.sub rewrites: the starts of the leftmost non-overlapping matches.
RECURSIVE RewrittenFrom(_, _, _)
RewrittenFrom(pattern, text, i) ==
  IF i > Len(text) THEN {}
  ELSE IF MatchesAt(pattern, text, i)
       THEN {i} \cup RewrittenFrom(pattern, text, i + Len(pattern))
       ELSE RewrittenFrom(pattern, text, i + 1)

\* An occurrence of the pattern long at p and one of the pattern short at q
\* have a piece of the text in common.
Overlap(p, long, q, short) == p < q + Len(short) /\ q < p + Len(long)

\* C20: the reductions are applied in descending order of pattern length, so
\* that no pattern is rewritten where it overlaps an occurrence of a listed
\* pattern with more relation tokens that has yet to be tried.
C20_LongerPatternsFirst ==
  (npc = "loop" /\ repl_n <= Len(Replacements))
  => \A later \in (repl_n + 1)..Len(Replacements) :
       Tokens(Replacements[later][1]) > Tokens(Replacements[repl_n][1])
       => ~ \E q \in RewrittenFrom(Replacements[repl_n][1], the_computed, 1) :
             \E p \in 1..Len(the_computed) :
               /\ MatchesAt(Replacements[later][1], the_computed, p)
               /\ Overlap(p, Replacements[later][1], q, Replacements[repl_n][1])

\* ------------------------------------------------------ household migration
\* The links between the households of adjacent surveys of one individual.
AdjacentLinks(hh) ==
  {<<hh[i], hh[i + 1]>> :
     i \in {i \in 1..(Len(hh) - 1) :
              hh[i] # hh[i + 1] /\ hh[i] # "0" /\ hh[i + 1] # "0"}}

\* C19: an individual counts for a link (h1, h2) only if h1 and h2 are their
\* households in two adjacent surveys, different and neither '0' (A B B C
\* gives A-B and B-C, A B 0 C gives A-B only), and adds at most 1 to the
\* weight of a link.
C19_AdjacentHouseholdsOnly ==
  /\ hhList # <<>> => idvHHDict = AdjacentLinks(hhList)
  /\ \A l \in DOMAIN totalHHDict : totalHHDict[l] <= MaxLines - lines_left

\* ------------------------------------------------- the shortest-path tree
\* C21: in the returned tree, for every entry tree[A][B] with A # B the next
\* hop is a key of conns[A] and is one hop closer to B in the returned table,
\* pair_paths[tree[A][B]][B] = pair_paths[A][B] - 1, and it is B itself when
\* the distance is 1.
C21_NextHopIsOneCloser ==
  fpc = "returned"
  => \A a \in DOMAIN short_path_tree : \A b \in DOMAIN short_path_tree[a] :
       a # b
       => LET hop == short_path_tree[a][b]
          IN /\ hop \in DOMAIN conns[a]
             /\ b \in DOMAIN pair_paths[hop]
             /\ pair_paths[hop][b] = pair_paths[a][b] - 1
             /\ pair_paths[a][b] = 1 => hop = b

\* The entry of a table for a pair, or "none".
EntryOf(d, a, b) == IF b \in DOMAIN d[a] THEN <<d[a][b]>> ELSE <<>>

\* One round of the relaxation has run, with intermediate IdList(conns)[fw_k].
RelaxedRound == fpc = "relax" /\ fpc' = "relax" /\ fw_k' = fw_k + 1

\* The pair's entry in the distance table or in the tree was written.
Updated(person1, person2) ==
  \/ EntryOf(pair_paths', person1, person2) # EntryOf(pair_paths, person1, person2)
  \/ EntryOf(short_path_tree', person1, person2)
       # EntryOf(short_path_tree, person1, person2)

StrictlyShorter(k, person1, person2) ==
  /\ GetDist(pair_paths, person1, k) + GetDist(pair_paths, k, person2)
       < GetDist(pair_paths, person1, person2)
  /\ pair_paths'[person1][person2]
       = pair_paths[person1][k] + pair_paths[k][person2]

\* C22 as stated: a pair is updated only when the route through the current
\* intermediate is strictly shorter than the known distance, and the
\* intermediate itself is then recorded as the pair's next hop.
C22_UpdateRecordsIntermediate ==
  [][RelaxedRound
     => \A person1 \in DOMAIN conns : \A person2 \in DOMAIN conns :
          Updated(person1, person2)
          => /\ StrictlyShorter(IdList(conns)[fw_k], person1, person2)
             /\ short_path_tree'[person1][person2] = IdList(conns)[fw_k]]_vars

\* C22 amended: a pair is updated only when the route through the current
\* intermediate is strictly shorter than the known distance, and the next hop
\* then recorded is the one already recorded from person1 towards the
\* intermediate, short_path_tree[person1][new_intermediate].
C22_UpdateRecordsHopTowardsIntermediate ==
  [][RelaxedRound
     => \A person1 \in DOMAIN conns : \A person2 \in DOMAIN conns :
          Updated(person1, person2)
          => /\ StrictlyShorter(IdList(conns)[fw_k], person1, person2)
             /\ short_path_tree'[person1][person2]
                  = short_path_tree[person1][IdList(conns)[fw_k]]]_vars

\* A pair three links apart: its entry was written by an update through an
\* intermediate that one of its ends is not directly linked to.
C22_Witness ==
  /\ fpc = "returned"
  /\ \E a \in DOMAIN conns : \E b \in DOMAIN pair_paths[a] :
       /\ pair_paths[a][b] = 3
       /\ short_path_tree[a][b] \in DOMAIN conns[a]

\* C26: for any two different persons the returned table has an entry iff
\* some path connects them, and the entry is the length of a shortest path;
\* no entry stored, during the run or after, is the sentinel or exceeds N - 1
\* for a population of N.
C26_TableIsShortestDistances ==
  /\ fpc = "returned"
       => \A a \in DOMAIN conns : \A b \in DOMAIN conns :
            a # b
            => /\ b \in DOMAIN pair_paths[a] <=> Connected(conns, a, b)
               /\ b \in DOMAIN pair_paths[a]
                    => pair_paths[a][b] = Distance(conns, a, b)
  /\ \A a \in DOMAIN pair_paths : \A b \in DOMAIN pair_paths[a] :
       /\ pair_paths[a][b] # NO_CONN
       /\ pair_paths[a][b] <= Cardinality(DOMAIN conns) - 1

\* No person occurs twice in a path.
NoRepeat(seq) == \A i, j \in 1..Len(seq) : seq[i] = seq[j] => i = j

\* C29 as stated: for any two persons of the graph, path raises nothing and
\* returns a sequence that starts with id1, ends with id2 and visits no
\* person twice.
C29_PathJoinsAnyTwoPersons ==
  (ppc # "n/a" /\ path_id1 \in DOMAIN conns /\ path_id2 \in DOMAIN conns)
  => /\ ppc # "KeyError"
     /\ NoRepeat(mypath)
     /\ ppc = "returned"
          => /\ mypath # <<>>
             /\ mypath[1] = path_id1 /\ mypath[Len(mypath)] = path_id2

PathSafe ==
  (ppc # "n/a" /\ path_id1 \in DOMAIN conns /\ path_id2 \in DOMAIN conns)
  => /\ ppc # "KeyError"
     /\ NoRepeat(mypath)
     /\ IF path_id2 \in DOMAIN short_path_tree[path_id1]
        THEN /\ mypath # <<>> /\ mypath[1] = path_id1
             /\ ppc = "returned" => mypath[Len(mypath)] = path_id2
        ELSE ppc = "returned" /\ mypath = <<>>

\* C29 amended: for any two persons of the graph path terminates and raises
\* nothing; when the tree has an entry for the pair the loop reaches id2
\* without visiting a person twice and the sequence returned starts with id1
\* and ends with id2; when it has none (unconnected persons, an isolated
\* person with themself) the empty sequence is returned.
C29_PathTerminates ==
  /\ []PathSafe
  /\ (ppc = "loop") ~> (ppc = "returned")

\* A path of four persons returned.
C29_Witness ==
  /\ ppc = "returned" /\ Len(mypath) = 4
  /\ mypath[1] = path_id1 /\ mypath[4] = path_id2

\* ------------------------------------------------ the steps of the search
\* The persons both sides of the search have discovered.
Met == DOMAIN known1 \cap DOMAIN known2

\* The least total length over the meeting points.
MinMeeting ==
  CHOOSE n \in {Len(known1[x]) + Len(known2[x]) : x \in Met} :
    \A x \in Met : n <= Len(known1[x]) + Len(known2[x])

\* C23: known_chain, once set, is replaced only by a strictly shorter chain,
\* so that a meeting point of equal length never displaces the first, and
\* when the search ends its length is the least of
\* len(known1[x]) + len(known2[x]) over the persons x discovered from both
\* sides.
C23_KnownChainOnlyShortens ==
  /\ [][(known_chain # NoChain /\ known_chain' # known_chain)
         => Len(known_chain') < Len(known_chain)]_vars
  /\ []((spc = "returned" /\ id1 # id2 /\ id1 \in DOMAIN conns
           /\ id2 \in DOMAIN conns)
         => IF Met = {} THEN known_chain = NoChain
            ELSE Len(known_chain) = MinMeeting)

\* Two persons joined by two paths of two links, through either parent.
C23_Witness ==
  /\ Searched /\ max_links = NoCeiling
  /\ Cardinality({x \in Met : Len(known1[x]) = 2 /\ Len(known2[x]) = 2}) >= 2
  /\ Len(known_chain) = 4

\* Everybody put on the work queue so far, in the order of enqueueing.
Enqueued == dequeued \o to_explore

\* C24: within one call no person, the roots id1 and id2 included, is put on
\* the work queue or taken off it for expansion more than once.
C24_NobodyQueuedTwice ==
  spc \in {"loop", "returned"}
  => \A i, j \in 1..Len(Enqueued) : Enqueued[i] = Enqueued[j] => i = j

\* A chain is a walk in the graph from root: a 'self' link on root, then
\* links <<kind, p>>, each after a person q with conns[q][p] = kind.
IsWalkFrom(chain, root) ==
  /\ chain # <<>> /\ chain[1] = <<"self", root>>
  /\ \A i \in 2..Len(chain) :
       HasKind(conns, chain[i - 1][2], chain[i][2], chain[i][1])

\* The merged chain: as above, with 'self' links that stay on the person
\* reached.
IsMergedWalk(chain, root, end) ==
  /\ chain[1] = <<"self", root>> /\ chain[Len(chain)][2] = end
  /\ \A i \in 2..Len(chain) :
       IF chain[i][1] = "self" THEN chain[i][2] = chain[i - 1][2]
       ELSE HasKind(conns, chain[i - 1][2], chain[i][2], chain[i][1])

\* C25: at every step, known1[x] is a walk in the graph from id1 to x,
\* known2[x] one from id2 to x, and the merged chain is a walk from id1 to
\* id2 whose steps other than 'self' are edges of the graph with the kinds
\* stated.
C25_ChainsAreWalks ==
  spc \in {"loop", "returned"}
  => /\ \A x \in DOMAIN known1 :
          IsWalkFrom(known1[x], id1) /\ known1[x][Len(known1[x])][2] = x
     /\ \A x \in DOMAIN known2 :
          IsWalkFrom(known2[x], id2) /\ known2[x][Len(known2[x])][2] = x
     /\ known_chain # NoChain => IsMergedWalk(known_chain, id1, id2)

\* A merged chain of three links, with its second 'self' link.
C25_Witness ==
  /\ Searched /\ known_chain # NoChain /\ Len(known_chain) = 5
  /\ \E i \in 3..4 : known_chain[i][1] = "self"
  /\ IsMergedWalk(known_chain, id1, id2)

\* C28: the search terminates on every graph, with or without a ceiling: no
\* more persons are ever put on the work queue than the graph has persons,
\* plus the two roots, and the work queue of a search that has begun is
\* eventually empty, which ends the while loop.
C28_SearchTerminates ==
  /\ [](spc \in {"loop", "returned"}
         => Len(Enqueued) <= Cardinality(DOMAIN conns) + 2)
  /\ (spc = "loop") ~> (to_explore = <<>>)

\* A search on spouses with a child (a cycle) that put everybody on the
\* queue once and the roots twice.
C28_Witness ==
  /\ Searched /\ Len(dequeued) = Cardinality(DOMAIN conns) + 2
  /\ \E a \in DOMAIN conns : \E b \in DOMAIN conns : \E c \in DOMAIN conns :
       /\ HasKind(conns, a, b, "spouse")
       /\ HasKind(conns, c, a, "parent") /\ HasKind(conns, c, b, "parent")

\* ------------------------------------------------- vocabulary of the names
\* The terms a name is made of, as pieces of text.
Vocabulary ==
  { <<"parent">>, <<"child">>, <<"spouse">>, <<"sibling">>,
    <<"first cousin">>, <<"second cousin">>, <<"third cousin">>,
    <<"grand", "parent">>, <<"great-", "grand", "parent">>,
    <<"great-", "great-", "grand", "parent">>,
    <<"grand", "child">>, <<"great-", "grand", "child">>,
    <<"great-", "great-", "grand", "child">> }

\* The text from i on is whole terms of the vocabulary joined by "'s ".
RECURSIVE WholeTermsFrom(_, _)
WholeTermsFrom(text, i) ==
  \E term \in Vocabulary :
    /\ MatchesAt(term, text, i)
    /\ \/ i + Len(term) = Len(text) + 1
       \/ /\ i + Len(term) < Len(text)
          /\ text[i + Len(term)] = Joiner
          /\ WholeTermsFrom(text, i + Len(term) + 1)

\* C27: for every chain of relation kinds the name returned by
\* relationship_name is a "'s "-joined sequence of whole terms of the
\* vocabulary, the name of a chain without relations being empty: no later
\* reduction rewrites text inside a term an earlier reduction produced.
C27_NameIsWholeTerms ==
  npc = "returned"
  => the_computed = <<>> \/ WholeTermsFrom(the_computed, 1)

====
